---- MODULE Spec2Model ----
(***************************************************************************)
(* Model of the Memento example (Originator / ConcreteMemento / Caretaker) *)
(* of src/src/Memento.../Conceptual/index.ts, followed by models of the    *)
(* Singleton, Observer, Chain of Responsibility, Iterator, Builder,        *)
(* Composite and State examples.  The examples are separate programs: each *)
(* has its own variables and its own specification, in which the variables *)
(* of the other examples do not change.                                    *)
(*                                                                         *)
(* Strings are sequences of one-character strings.  Mementos are objects   *)
(* on a heap and are referred to by their address (1, 2, ...); 0 is the    *)
(* null reference.  The driver ("client code") calls the public methods    *)
(* in any order.                                                           *)
(***************************************************************************)
EXTENDS Integers, Sequences, FiniteSets, TLC

\* ---- bounds of the model ------------------------------------------------
MaxAlloc == 3      \* mementos constructed in one run
MaxTime == 1200    \* the clock stops advancing at this reading (ms)
TickMs == 1200     \* the clock advances in steps of this many milliseconds
MaxShows == 2      \* the showHistory counter saturates here

\* ---- program constants --------------------------------------------------
RandLen == 30      \* doSomething: generateRandomString(30)
NameLen == 9       \* getName: state.substr(0, 9)
MsPerSecond == 1000 \* getDate keeps toISOString() down to whole seconds

Null == 0
None == "none"

VARIABLES
    state,      \* Originator.state
    heap,       \* the ConcreteMemento objects constructed so far, by address
    mementos,   \* Caretaker.mementos: sequence of addresses
    now,        \* the system clock read by new Date(), in milliseconds
    shown,      \* the lines printed by the latest showHistory call
    err,        \* the exception the latest call ended with, or None
    memento,    \* the `memento` of the latest call: restore's parameter,
                \* undo's local (Null when undo returned early or the call
                \* has no such variable)
    lastOp,     \* the operation the driver called last
    backedUp,   \* history: addresses constructed by Caretaker.backup
    reverted,   \* history: addresses Caretaker.undo restored from
    shows,      \* history: showHistory calls since the last backup/undo
    win,        \* history: the current run of backups followed by undos
    ret,        \* what the latest call returned: <<>> for undefined (void),
                \* <<m>> for a reference to the memento at address m
    logged,     \* the label undo printed in the latest call, <<>> if none
    calls       \* the calls made during the latest call of the driver, as
                \* pairs <<calling object, method called>>

vars == <<state, heap, mementos, now, shown, err, memento, lastOp,
          backedUp, reverted, shows, win, ret, logged, calls>>

\* ---- strings ------------------------------------------------------------
Min(a, b) == IF a < b THEN a ELSE b

Rep(c, n) == [i \in 1..n |-> c]

\* String.prototype.substr(from, length)
substr(s, from, length) == SubSeq(s, from + 1, Min(from + length, Len(s)))

\* a sample of the 52 letters of charSet
charSet == {"a", "b"}

\* the strings generateRandomString(length) may return, restricted to those
\* that start with length - 1 times the letter a and end with any letter
generateRandomString(length) ==
    {Rep("a", length - 1) \o <<b>> : b \in charSet}

\* 'Super-duper-super-puper-super.'
ClientInitialState ==
    <<"S","u","p","e","r","-","d","u","p","e","r","-","s","u","p","e","r","-",
      "p","u","p","e","r","-","s","u","p","e","r",".">>

\* the states the Originator is constructed with
InitialStates == {ClientInitialState, <<"A">>}

\* ---- ConcreteMemento ----------------------------------------------------
\* new Date().toISOString().slice(0, 19): the clock reading in whole seconds
isoDate(t) == t \div MsPerSecond

ConcreteMemento(s, t) == [state |-> s, date |-> isoDate(t)]

getState(m) == heap[m].state

getDate(m) == heap[m].date

\* `${date} / (${state.substr(0, 9)}...)`
getName(m) == <<getDate(m), substr(heap[m].state, 0, NameLen)>>

\* ---- history-variable helpers --------------------------------------------
\* win.bases: the configurations (state, mementos) in which the backups of
\* the current run were called, not yet matched by an undo; win.n: the number
\* of undos that followed them; win.closed: the configuration before the
\* backup that the latest of these undos matched
NoWindow == [bases |-> <<>>, reverting |-> FALSE, n |-> 0, closed |-> <<>>]

Last(s) == s[Len(s)]

Front(s) == SubSeq(s, 1, Len(s) - 1)

\* the window after a backup called in configuration (state, mementos)
WinBackup ==
    [bases |-> (IF win.reverting THEN <<>> ELSE win.bases)
                 \o <<[state |-> state, mementos |-> mementos]>>,
     reverting |-> FALSE,
     n |-> 0,
     closed |-> <<>>]

\* the window after an undo: the innermost open backup is closed
WinUndo ==
    IF win.bases = <<>>
    THEN NoWindow
    ELSE [bases |-> Front(win.bases),
          reverting |-> TRUE,
          n |-> win.n + 1,
          closed |-> <<Last(win.bases)>>]

\* addresses the driver holds: the results of its own save() calls
DriverHeld == (1..Len(heap)) \ backedUp

\* ---- calls --------------------------------------------------------------
\* the calls in the body of Originator.save
saveCalls == {<<"Originator", "ConcreteMemento.constructor">>}

\* the calls in the body of Originator.restore(m): getState() is entered only
\* on a memento
restoreCalls(m) ==
    IF m = Null THEN {} ELSE {<<"Originator", "ConcreteMemento.getState">>}

\* the calls in the body of Caretaker.backup
backupCalls == {<<"Caretaker", "Originator.save">>} \cup saveCalls

\* the calls in the body of Caretaker.undo that popped m (Null: empty history)
undoCalls(m) ==
    IF m = Null
    THEN {}
    ELSE {<<"Caretaker", "ConcreteMemento.getName">>,
          <<"Caretaker", "Originator.restore">>} \cup restoreCalls(m)

\* the calls in the body of Caretaker.showHistory
showHistoryCalls ==
    IF mementos = <<>> THEN {} ELSE {<<"Caretaker", "ConcreteMemento.getName">>}

\* ---- initial state ------------------------------------------------------
Init ==
    /\ state \in InitialStates
    /\ heap = <<>>
    /\ mementos = <<>>
    /\ now = 0
    /\ shown = <<>>
    /\ err = None
    /\ memento = Null
    /\ lastOp = "new"
    /\ backedUp = {}
    /\ reverted = {}
    /\ shows = 0
    /\ win = NoWindow
    /\ ret = <<>>
    /\ logged = <<>>
    /\ calls = {}

\* the state after the construction in the client code: the originator holds
\* the client's string
InitClient == Init /\ state = ClientInitialState

\* ---- Originator ---------------------------------------------------------
\* the effect of Originator.save on the heap: a new ConcreteMemento
saveHeap == Append(heap, ConcreteMemento(state, now))

\* doSomething if mementos shared the Originator's live state
doSomething_aliased(s) ==
    /\ state' = s
    /\ heap' = [m \in 1..Len(heap) |-> [heap[m] EXCEPT !.state = s]]
    /\ err' = None
    /\ memento' = Null
    /\ lastOp' = "doSomething"
    /\ ret' = <<>>
    /\ logged' = <<>>
    /\ calls' = {<<"driver", "Originator.doSomething">>}
    /\ win' = NoWindow
    /\ UNCHANGED <<mementos, now, shown, backedUp, reverted, shows>>

\* doSomething if the Originator had the Caretaker back its state up first
doSomething_selfBackup(s) ==
    /\ state' = s
    /\ heap' = IF Len(heap) < MaxAlloc THEN saveHeap ELSE heap
    /\ mementos' = IF Len(heap) < MaxAlloc
                   THEN Append(mementos, Len(heap) + 1) ELSE mementos
    /\ backedUp' = IF Len(heap) < MaxAlloc
                   THEN backedUp \cup {Len(heap) + 1} ELSE backedUp
    /\ err' = None
    /\ memento' = Null
    /\ lastOp' = "doSomething"
    /\ ret' = <<>>
    /\ logged' = <<>>
    /\ calls' = {<<"driver", "Originator.doSomething">>,
                 <<"Originator", "Caretaker.backup">>} \cup backupCalls
    /\ win' = NoWindow
    /\ UNCHANGED <<now, shown, reverted, shows>>

\* Originator.doSomething, s being the random string generated
doSomething(s) ==
    /\ state' = s
    /\ err' = None
    /\ memento' = Null
    /\ lastOp' = "doSomething"
    /\ ret' = <<>>
    /\ logged' = <<>>
    /\ calls' = {<<"driver", "Originator.doSomething">>}
    /\ win' = NoWindow
    /\ UNCHANGED <<heap, mementos, now, shown, backedUp, reverted, shows>>

\* save if it moved the state out of the Originator
save_moved ==
    /\ Len(heap) < MaxAlloc
    /\ heap' = saveHeap
    /\ state' = <<>>
    /\ err' = None
    /\ memento' = Null
    /\ lastOp' = "save"
    /\ ret' = <<Len(heap) + 1>>
    /\ logged' = <<>>
    /\ calls' = {<<"driver", "Originator.save">>} \cup saveCalls
    /\ UNCHANGED <<mementos, now, shown, backedUp, reverted, shows, win>>

\* Originator.save called by the driver
save ==
    /\ Len(heap) < MaxAlloc
    /\ heap' = saveHeap
    /\ err' = None
    /\ memento' = Null
    /\ lastOp' = "save"
    /\ ret' = <<Len(heap) + 1>>
    /\ logged' = <<>>
    /\ calls' = {<<"driver", "Originator.save">>} \cup saveCalls
    /\ UNCHANGED <<state, mementos, now, shown, backedUp, reverted, shows, win>>

\* restore's body if it read the state as memento?.getState()
restoreBody_optional(m) ==
    IF m = Null
    THEN /\ err' = None
         /\ state' = <<>>
    ELSE /\ state' = getState(m)
         /\ err' = None

\* the body of Originator.restore(m): memento.getState() throws on null
restoreBody(m) ==
    IF m = Null
    THEN /\ err' = "TypeError"
         /\ state' = state
    ELSE /\ state' = getState(m)
         /\ err' = None

\* restore if it also dropped the latest entry of the Caretaker
restore_popping(m) ==
    /\ restoreBody(m)
    /\ mementos' = SubSeq(mementos, 1, Len(mementos) - 1)
    /\ memento' = m
    /\ lastOp' = "restore"
    /\ ret' = <<>>
    /\ logged' = <<>>
    /\ calls' = {<<"driver", "Originator.restore">>} \cup restoreCalls(m)
    /\ win' = NoWindow
    /\ UNCHANGED <<heap, now, shown, backedUp, reverted, shows>>

\* Originator.restore called by the driver
restore(m) ==
    /\ restoreBody(m)
    /\ memento' = m
    /\ lastOp' = "restore"
    /\ ret' = <<>>
    /\ logged' = <<>>
    /\ calls' = {<<"driver", "Originator.restore">>} \cup restoreCalls(m)
    /\ win' = NoWindow
    /\ UNCHANGED <<heap, mementos, now, shown, backedUp, reverted, shows>>

\* ---- Caretaker ----------------------------------------------------------
\* backup with unshift in place of push
backup_unshift ==
    /\ Len(heap) < MaxAlloc
    /\ heap' = saveHeap
    /\ mementos' = <<Len(heap) + 1>> \o mementos
    /\ err' = None
    /\ memento' = Null
    /\ lastOp' = "backup"
    /\ ret' = <<>>
    /\ logged' = <<>>
    /\ calls' = {<<"driver", "Caretaker.backup">>} \cup backupCalls
    /\ backedUp' = backedUp \cup {Len(heap) + 1}
    /\ shows' = 0
    /\ win' = WinBackup
    /\ UNCHANGED <<state, now, shown, reverted>>

\* backup that saves but, once the history is non-empty, does not push
backup_once ==
    /\ Len(heap) < MaxAlloc
    /\ heap' = saveHeap
    /\ mementos' = IF mementos = <<>> THEN <<Len(heap) + 1>> ELSE mementos
    /\ err' = None
    /\ memento' = Null
    /\ lastOp' = "backup"
    /\ ret' = <<>>
    /\ logged' = <<>>
    /\ calls' = {<<"driver", "Caretaker.backup">>} \cup backupCalls
    /\ backedUp' = backedUp \cup {Len(heap) + 1}
    /\ shows' = 0
    /\ win' = WinBackup
    /\ UNCHANGED <<state, now, shown, reverted>>

\* Caretaker.backup
backup ==
    /\ Len(heap) < MaxAlloc
    /\ heap' = saveHeap
    /\ mementos' = Append(mementos, Len(heap) + 1)
    /\ err' = None
    /\ memento' = Null
    /\ lastOp' = "backup"
    /\ ret' = <<>>
    /\ logged' = <<>>
    /\ calls' = {<<"driver", "Caretaker.backup">>} \cup backupCalls
    /\ backedUp' = backedUp \cup {Len(heap) + 1}
    /\ shows' = 0
    /\ win' = WinBackup
    /\ UNCHANGED <<state, now, shown, reverted>>

\* undo with shift in place of pop
undo_shift ==
    /\ IF Len(mementos) = 0
       THEN /\ memento' = Null
            /\ err' = None
            /\ UNCHANGED <<state, mementos, reverted>>
       ELSE /\ memento' = Head(mementos)
            /\ mementos' = Tail(mementos)
            /\ restoreBody(Head(mementos))
            /\ reverted' = reverted \cup {Head(mementos)}
    /\ lastOp' = "undo"
    /\ ret' = <<>>
    /\ logged' = IF memento' = Null THEN <<>> ELSE getName(memento')
    /\ calls' = {<<"driver", "Caretaker.undo">>} \cup undoCalls(memento')
    /\ shows' = 0
    /\ win' = WinUndo
    /\ UNCHANGED <<heap, now, shown, backedUp>>

\* undo without the length check: pop() of [] is undefined, and
\* memento.getName() throws
undo_unchecked ==
    /\ IF Len(mementos) = 0
       THEN /\ memento' = Null
            /\ err' = "TypeError"
            /\ UNCHANGED <<state, mementos, reverted>>
       ELSE /\ memento' = Last(mementos)
            /\ mementos' = Front(mementos)
            /\ restoreBody(Last(mementos))
            /\ reverted' = reverted \cup {Last(mementos)}
    /\ lastOp' = "undo"
    /\ ret' = <<>>
    /\ logged' = IF memento' = Null THEN <<>> ELSE getName(memento')
    /\ calls' = {<<"driver", "Caretaker.undo">>} \cup undoCalls(memento')
    /\ shows' = 0
    /\ win' = WinUndo
    /\ UNCHANGED <<heap, now, shown, backedUp>>

\* undo if it returned the memento it popped
undo_returning ==
    /\ IF Len(mementos) = 0
       THEN /\ memento' = Null
            /\ err' = None
            /\ UNCHANGED <<state, mementos, reverted>>
       ELSE /\ memento' = Last(mementos)
            /\ mementos' = Front(mementos)
            /\ restoreBody(Last(mementos))
            /\ reverted' = reverted \cup {Last(mementos)}
    /\ lastOp' = "undo"
    /\ ret' = IF memento' = Null THEN <<>> ELSE <<memento'>>
    /\ logged' = IF memento' = Null THEN <<>> ELSE getName(memento')
    /\ calls' = {<<"driver", "Caretaker.undo">>} \cup undoCalls(memento')
    /\ shows' = 0
    /\ win' = WinUndo
    /\ UNCHANGED <<heap, now, shown, backedUp>>

\* Caretaker.undo
undo ==
    /\ IF Len(mementos) = 0
       THEN /\ memento' = Null
            /\ err' = None
            /\ UNCHANGED <<state, mementos, reverted>>
       ELSE /\ memento' = Last(mementos)
            /\ mementos' = Front(mementos)
            /\ restoreBody(Last(mementos))
            /\ reverted' = reverted \cup {Last(mementos)}
    /\ lastOp' = "undo"
    /\ ret' = <<>>
    /\ logged' = IF memento' = Null THEN <<>> ELSE getName(memento')
    /\ calls' = {<<"driver", "Caretaker.undo">>} \cup undoCalls(memento')
    /\ shows' = 0
    /\ win' = WinUndo
    /\ UNCHANGED <<heap, now, shown, backedUp>>

\* showHistory if it consumed the entries while printing them
showHistory_draining ==
    /\ shown' = [i \in 1..Len(mementos) |-> getName(mementos[i])]
    /\ mementos' = <<>>
    /\ err' = None
    /\ memento' = Null
    /\ lastOp' = "showHistory"
    /\ ret' = <<>>
    /\ logged' = <<>>
    /\ calls' = {<<"driver", "Caretaker.showHistory">>} \cup showHistoryCalls
    /\ shows' = Min(shows + 1, MaxShows)
    /\ UNCHANGED <<state, heap, now, backedUp, reverted, win>>

\* showHistory if it printed the newest entry first
showHistory_newestFirst ==
    /\ shown' = [i \in 1..Len(mementos) |->
                    getName(mementos[Len(mementos) + 1 - i])]
    /\ err' = None
    /\ memento' = Null
    /\ lastOp' = "showHistory"
    /\ ret' = <<>>
    /\ logged' = <<>>
    /\ calls' = {<<"driver", "Caretaker.showHistory">>} \cup showHistoryCalls
    /\ shows' = Min(shows + 1, MaxShows)
    /\ UNCHANGED <<state, heap, mementos, now, backedUp, reverted, win>>

\* Caretaker.showHistory
showHistory ==
    /\ shown' = [i \in 1..Len(mementos) |-> getName(mementos[i])]
    /\ err' = None
    /\ memento' = Null
    /\ lastOp' = "showHistory"
    /\ ret' = <<>>
    /\ logged' = <<>>
    /\ calls' = {<<"driver", "Caretaker.showHistory">>} \cup showHistoryCalls
    /\ shows' = Min(shows + 1, MaxShows)
    /\ UNCHANGED <<state, heap, mementos, now, backedUp, reverted, win>>

\* ---- environment --------------------------------------------------------
Tick ==
    /\ now < MaxTime
    /\ now' = now + TickMs
    /\ lastOp' = "tick"
    /\ UNCHANGED <<state, heap, mementos, shown, err, memento,
                   backedUp, reverted, shows, win, ret, logged, calls>>

\* the strings the Originator's state ranges over
States == InitialStates \cup generateRandomString(RandLen)

TypeOK ==
    /\ state \in States
    /\ Len(heap) <= MaxAlloc
    /\ \A m \in 1..Len(heap) : heap[m].state \in States
    /\ \A i \in 1..Len(mementos) : mementos[i] \in 1..Len(heap)
    /\ err \in {None, "TypeError"}

\* ==== Singleton ==========================================================
\* src/src/Singleton.../Conceptual/index.ts
NumClients == 4    \* calls of clientCode in one run

Clients == 1..NumClients

VARIABLES
    instance,    \* the static field Singleton.instance (Null: not yet set)
    singletons,  \* the number of Singleton objects constructed; the k-th
                 \* object constructed has address k
    s1,          \* clientCode's local s1, per call of clientCode
    s2,          \* clientCode's local s2, per call of clientCode
    clientPc,    \* the position of each call of clientCode
    verdict      \* what each call of clientCode printed

singletonVars == <<instance, singletons, s1, s2, clientPc, verdict>>

SingletonInit ==
    /\ instance = Null
    /\ singletons = 0
    /\ s1 = [c \in Clients |-> Null]
    /\ s2 = [c \in Clients |-> Null]
    /\ clientPc = [c \in Clients |-> "start"]
    /\ verdict = [c \in Clients |-> "none"]

\* getInstance without the check of Singleton.instance
getInstance_unchecked ==
    /\ instance' = singletons + 1
    /\ singletons' = singletons + 1

\* Singleton.getInstance: its effect on the class; it returns instance'
getInstance ==
    /\ instance' = IF instance = Null THEN singletons + 1 ELSE instance
    /\ singletons' = IF instance = Null THEN singletons + 1 ELSE singletons

\* const s1 = Singleton.getInstance();
clientS1(c) ==
    /\ clientPc[c] = "start"
    /\ getInstance
    /\ s1' = [s1 EXCEPT ![c] = instance']
    /\ clientPc' = [clientPc EXCEPT ![c] = "s1"]
    /\ UNCHANGED <<s2, verdict>>

\* const s2 = Singleton.getInstance();
clientS2(c) ==
    /\ clientPc[c] = "s1"
    /\ getInstance
    /\ s2' = [s2 EXCEPT ![c] = instance']
    /\ clientPc' = [clientPc EXCEPT ![c] = "s2"]
    /\ UNCHANGED <<s1, verdict>>

\* if (s1 === s2) ... else ...
clientCompare(c) ==
    /\ clientPc[c] = "s2"
    /\ verdict' = [verdict EXCEPT ![c] =
                      IF s1[c] = s2[c] THEN "works" ELSE "failed"]
    /\ clientPc' = [clientPc EXCEPT ![c] = "done"]
    /\ UNCHANGED <<instance, singletons, s1, s2>>

\* ==== Memento, step by step ===============================================
\* Caretaker.undo taken apart into its steps, to see what its running to
\* completion rules out.  A second thread of control calls doSomething and
\* backup.
VARIABLES
    pc,     \* the position of the undo call in progress: "idle" (none),
            \* "popped" (line 141 done), "restored" (line 144 done)
    lock    \* TRUE: a public method runs to completion before another starts,
            \* as calls do in the single-threaded run of the example (and as
            \* under one lock around Caretaker and Originator);
            \* FALSE: the steps of undo interleave with the other thread

concVars == <<pc, lock>>

\* no undo in progress; either way of running
ConcInit ==
    /\ pc = "idle"
    /\ lock \in BOOLEAN

\* the example as it runs: no undo in progress, methods run to completion
ConcIdle ==
    /\ pc = "idle"
    /\ lock = TRUE

\* what the steps below leave alone
concFrame ==
    UNCHANGED <<now, shown, err, backedUp, reverted, shows, win, ret, logged,
                calls, lock>>

\* the other thread may run a method
lockFree == ~lock \/ pc = "idle"

\* Originator.doSomething called by the other thread
concDoSomething(s) ==
    /\ lockFree
    /\ state' = s
    /\ lastOp' = "doSomething"
    /\ concFrame
    /\ UNCHANGED <<heap, mementos, memento, pc>>

\* Caretaker.backup called by the other thread
concBackup ==
    /\ lockFree
    /\ Len(heap) < MaxAlloc
    /\ heap' = saveHeap
    /\ mementos' = Append(mementos, Len(heap) + 1)
    /\ lastOp' = "backup"
    /\ concFrame
    /\ UNCHANGED <<state, memento, pc>>

\* undo, lines 138-141: the length check and the pop
undoPop ==
    /\ pc = "idle"
    /\ IF Len(mementos) = 0
       THEN /\ memento' = Null
            /\ lastOp' = "undo"
            /\ UNCHANGED <<mementos, pc>>
       ELSE /\ memento' = Last(mementos)
            /\ mementos' = Front(mementos)
            /\ lastOp' = "undo:pop"
            /\ pc' = "popped"
    /\ concFrame
    /\ UNCHANGED <<state, heap>>

\* undo's restore step if it did not write the state
undoRestore_skipped ==
    /\ pc = "popped"
    /\ pc' = "restored"
    /\ lastOp' = "undo:restore"
    /\ concFrame
    /\ UNCHANGED <<state, heap, mementos, memento>>

\* undo, line 144: this.originator.restore(memento)
undoRestore ==
    /\ pc = "popped"
    /\ state' = getState(memento)
    /\ pc' = "restored"
    /\ lastOp' = "undo:restore"
    /\ concFrame
    /\ UNCHANGED <<heap, mementos, memento>>

\* undo returns to its caller
undoReturn ==
    /\ pc = "restored"
    /\ pc' = "idle"
    /\ lastOp' = "undo"
    /\ concFrame
    /\ UNCHANGED <<state, heap, mementos, memento>>


\* ==== Observer ============================================================
\* src/src/Observer.../Conceptual/index.ts
NumObservers == 3       \* observer objects constructed by the client
MaxRandomState == 10    \* someBusinessLogic: Math.floor(Math.random() * (10 + 1))
Unset == -1             \* ConcreteSubject.state before its first assignment

\* the observer objects: the odd ones are ConcreteObserverA, the even ones
\* ConcreteObserverB
Observers == 1..NumObservers

observerClass(o) == IF o % 2 = 1 THEN "ConcreteObserverA" ELSE "ConcreteObserverB"

VARIABLES
    observers,     \* ConcreteSubject.observers
    subjectState,  \* ConcreteSubject.state
    updates,       \* the update calls of the latest notification round, in
                   \* order: the observer, the state it read, whether it reacted
    obsOp,         \* the method of the subject the client called last
    attached,      \* history: the observers attached and not detached since
    before,        \* history: <<p, o>> when p and o are attached and p was
                   \* attached before o
    detached       \* history: the observers detached and not attached since

observerVars ==
    <<observers, subjectState, updates, obsOp, attached, before, detached>>

ObserverInit ==
    /\ observers = <<>>
    /\ subjectState = Unset
    /\ updates = <<>>
    /\ obsOp = "new"
    /\ attached = {}
    /\ before = {}
    /\ detached = {}

\* Array.prototype.includes
includes(list, x) == \E i \in 1..Len(list) : list[i] = x

\* Array.prototype.indexOf, counting from 1; 0 when x is not in the list
indexOf(list, x) ==
    IF includes(list, x)
    THEN CHOOSE i \in 1..Len(list) :
            list[i] = x /\ \A j \in 1..(i - 1) : list[j] # x
    ELSE 0

\* list.splice(i, 1) for a position i of the list, counting from 1
removeAt(list, i) == SubSeq(list, 1, i - 1) \o SubSeq(list, i + 1, Len(list))

\* an attach that does not look for the observer in the list
attach_always(o) ==
    /\ Len(observers) < NumObservers
    /\ observers' = Append(observers, o)
    /\ attached' = attached \cup {o}
    /\ before' = before \cup {<<p, o>> : p \in attached \ {o}}
    /\ detached' = detached \ {o}
    /\ obsOp' = "attach"
    /\ UNCHANGED <<subjectState, updates>>

\* ConcreteSubject.attach
attach(o) ==
    /\ IF includes(observers, o)
       THEN UNCHANGED <<observers, attached, before, detached>>
       ELSE /\ observers' = Append(observers, o)
            /\ attached' = attached \cup {o}
            /\ before' = before \cup {<<p, o>> : p \in attached}
            /\ detached' = detached \ {o}
    /\ obsOp' = "attach"
    /\ UNCHANGED <<subjectState, updates>>

\* ConcreteSubject.detach
detach(o) ==
    /\ IF indexOf(observers, o) = 0
       THEN UNCHANGED <<observers, attached, before, detached>>
       ELSE /\ observers' = removeAt(observers, indexOf(observers, o))
            /\ attached' = attached \ {o}
            /\ before' = {b \in before : b[1] # o /\ b[2] # o}
            /\ detached' = detached \cup {o}
    /\ obsOp' = "detach"
    /\ UNCHANGED <<subjectState, updates>>

\* ConcreteObserverA.update / ConcreteObserverB.update reading state st:
\* whether the observer reacts
update(o, st) ==
    /\ st # Unset
    /\ IF observerClass(o) = "ConcreteObserverA"
       THEN st < 3
       ELSE st = 0 \/ st >= 2

\* the update calls of a notification round in reverse order
notifyRound_reversed(st) ==
    [i \in 1..Len(observers) |->
        [observer |-> observers[Len(observers) + 1 - i],
         state |-> st,
         reacted |-> update(observers[Len(observers) + 1 - i], st)]]

\* the update calls of ConcreteSubject.notify while the state is st
notifyRound(st) ==
    [i \in 1..Len(observers) |->
        [observer |-> observers[i],
         state |-> st,
         reacted |-> update(observers[i], st)]]

\* ConcreteSubject.notify called by the client
notify ==
    /\ updates' = notifyRound(subjectState)
    /\ obsOp' = "notify"
    /\ UNCHANGED <<observers, subjectState, attached, before, detached>>

\* a someBusinessLogic that notifies before it stores the number drawn
someBusinessLogic_notifyFirst(n) ==
    /\ subjectState' = n
    /\ updates' = notifyRound(subjectState)
    /\ obsOp' = "someBusinessLogic"
    /\ UNCHANGED <<observers, attached, before, detached>>

\* ConcreteSubject.someBusinessLogic, n being the random number drawn
someBusinessLogic(n) ==
    /\ subjectState' = n
    /\ updates' = notifyRound(n)
    /\ obsOp' = "someBusinessLogic"
    /\ UNCHANGED <<observers, attached, before, detached>>


\* ==== Chain of Responsibility =============================================
\* src/src/Proxy.../Conceptual/index.ts, lines 261-381
NumHandlers == 3        \* handler objects constructed by the client

Handlers == 1..NumHandlers

\* the client constructs a MonkeyHandler, a SquirrelHandler and a DogHandler
handlerClass(h) ==
    IF h % 3 = 1 THEN "Monkey" ELSE IF h % 3 = 2 THEN "Squirrel" ELSE "Dog"

\* the requests the client sends, and one only the Dog takes
Requests == {"Nut", "Banana", "Cup of coffee", "MeatBall"}

\* the value null where a string is expected (strings are sequences)
NullString == <<"null">>

RangeError == <<"RangeError: Maximum call stack size exceeded">>

VARIABLES
    nextHandler,   \* AbstractHandler.nextHandler of every handler (Null: unset)
    chainOp,       \* the method the client called last
    chainStart,    \* the handler the latest handle call was sent to
    chainRequest,  \* the request of the latest handle call
    chainResult,   \* what the latest handle call returned (or threw)
    consulted      \* the handlers whose handle ran in the latest call, in order

chainVars ==
    <<nextHandler, chainOp, chainStart, chainRequest, chainResult, consulted>>

ChainInit ==
    /\ nextHandler = [h \in Handlers |-> Null]
    /\ chainOp = "new"
    /\ chainStart = Null
    /\ chainRequest = None
    /\ chainResult = NullString
    /\ consulted = <<>>

\* AbstractHandler.setNext
setNext(h, handler) ==
    /\ nextHandler' = [nextHandler EXCEPT ![h] = handler]
    /\ chainOp' = "setNext"
    /\ UNCHANGED <<chainStart, chainRequest, chainResult, consulted>>

\* a first handler that takes every food
accepts_first(h, request) ==
    IF handlerClass(h) = "Monkey" THEN request # "Cup of coffee"
    ELSE IF handlerClass(h) = "Squirrel" THEN request = "Nut"
    ELSE request = "MeatBall"

\* the test at the head of MonkeyHandler.handle, SquirrelHandler.handle and
\* DogHandler.handle
accepts(h, request) ==
    IF handlerClass(h) = "Monkey" THEN request = "Banana"
    ELSE IF handlerClass(h) = "Squirrel" THEN request = "Nut"
    ELSE request = "MeatBall"

\* the string `${class}: I'll eat the ${request}.`
response(h, request) == <<handlerClass(h), ": I'll eat the ", request, ".">>

\* h.handle(request) with `seen` the handlers whose handle is on the call
\* stack: the concrete handler answers or calls super.handle, which forwards to
\* nextHandler or returns null. A call that comes back to a handler on the
\* stack repeats for ever and ends by exhausting the stack.
RECURSIVE handle(_, _, _)
handle(h, request, seen) ==
    IF accepts(h, request)
    THEN [result |-> response(h, request), consulted |-> Append(seen, h)]
    ELSE IF nextHandler[h] = Null
    THEN [result |-> NullString, consulted |-> Append(seen, h)]
    ELSE IF includes(Append(seen, h), nextHandler[h])
    THEN [result |-> RangeError, consulted |-> Append(seen, h)]
    ELSE handle(nextHandler[h], request, Append(seen, h))

\* the client calls handler.handle(request)
clientHandle(h, request) ==
    /\ chainStart' = h
    /\ chainRequest' = request
    /\ chainResult' = handle(h, request, <<>>).result
    /\ consulted' = handle(h, request, <<>>).consulted
    /\ chainOp' = "handle"
    /\ UNCHANGED nextHandler


\* ==== Iterator ============================================================
\* src/src/Proxy.../Conceptual/index.ts, lines 109-259
MaxItems == 3           \* most items added to the collection
MaxOut == 3             \* no rewind once the loop has returned this many items

Words == {"First", "Second", "Third"}

Undefined == "undefined"

VARIABLES
    items,         \* WordsCollection.items
    position,      \* AlphabeticalOrderIterator.position
    reverse,       \* AlphabeticalOrderIterator.reverse
    itPc,          \* the client: "none" before it has an iterator, "loop" in
                   \* its while loop, "done" after it
    out,           \* what next() returned in the loop, in order
    fresh          \* history: since the iterator was constructed there was
                   \* neither an addItem nor a rewind

iteratorVars == <<items, position, reverse, itPc, out, fresh>>

IteratorInit ==
    /\ items = <<>>
    /\ position = 0
    /\ reverse = FALSE
    /\ itPc = "none"
    /\ out = <<>>
    /\ fresh = FALSE

\* WordsCollection.getItems
getItems == items

\* WordsCollection.getCount
getCount == Len(items)

\* list[i] of JavaScript: positions count from 0, undefined outside the list
at(list, i) == IF i >= 0 /\ i < Len(list) THEN list[i + 1] ELSE Undefined

\* WordsCollection.addItem
addItem(item) ==
    /\ Len(items) < MaxItems
    /\ items' = Append(items, item)
    /\ fresh' = FALSE
    /\ UNCHANGED <<position, reverse, itPc, out>>

\* new AlphabeticalOrderIterator(collection, rev), and the client enters its
\* while loop
newIterator(rev) ==
    /\ itPc # "loop"
    /\ reverse' = rev
    /\ position' = IF rev THEN getCount - 1 ELSE 0
    /\ itPc' = "loop"
    /\ out' = <<>>
    /\ fresh' = TRUE
    /\ UNCHANGED items

\* WordsCollection.getIterator
getIterator == newIterator(FALSE)

\* WordsCollection.getReverseIterator
getReverseIterator == newIterator(TRUE)

\* AlphabeticalOrderIterator.rewind
rewind ==
    /\ itPc = "loop"
    /\ Len(out) < MaxOut
    /\ position' = IF reverse THEN getCount - 1 ELSE 0
    /\ fresh' = FALSE
    /\ UNCHANGED <<items, reverse, itPc, out>>

\* AlphabeticalOrderIterator.current
current == at(getItems, position)

\* AlphabeticalOrderIterator.key
key == position

\* a reverse traversal that stops one short
valid_short == IF reverse THEN position > 0 ELSE position < getCount

\* AlphabeticalOrderIterator.valid
valid == IF reverse THEN position >= 0 ELSE position < getCount

\* one turn of the client's loop: valid() was true, next() returns the item at
\* the position and moves the position
loopNext ==
    /\ itPc = "loop"
    /\ valid
    /\ out' = Append(out, at(getItems, position))
    /\ position' = position + (IF reverse THEN -1 ELSE 1)
    /\ UNCHANGED <<items, reverse, itPc, fresh>>

\* the client's loop ends: valid() was false
loopExit ==
    /\ itPc = "loop"
    /\ ~valid
    /\ itPc' = "done"
    /\ UNCHANGED <<items, position, reverse, out, fresh>>


\* ==== Builder =============================================================
\* src/src/Builder.../Conceptual/index.ts
MaxProduced == 4        \* most parts produced in a run
MaxProducts == 3        \* most Product1 objects constructed in a run

VARIABLES
    products,      \* the Product1 objects by address: the parts of each
    product,       \* ConcreteBuilder1.product (an address)
    returned,      \* the addresses getProduct returned, in order
    builderOp,     \* the method the client or the director called last
    produced,      \* the number of parts produced so far
    sinceReset,    \* history: the parts produced since the construction of the
                   \* builder or its latest getProduct or reset, in order
    handedOut      \* history: the parts of each returned product when it was
                   \* returned

builderVars ==
    <<products, product, returned, builderOp, produced, sinceReset, handedOut>>

\* new ConcreteBuilder1(): the constructor calls reset
BuilderInit ==
    /\ products = << <<>> >>
    /\ product = 1
    /\ returned = <<>>
    /\ builderOp = "new"
    /\ produced = 0
    /\ sinceReset = <<>>
    /\ handedOut = <<>>

\* this.product.parts.push(...) for each of the parts, in order
push(parts) ==
    /\ produced + Len(parts) <= MaxProduced
    /\ products' = [products EXCEPT ![product] = @ \o parts]
    /\ produced' = produced + Len(parts)
    /\ sinceReset' = sinceReset \o parts
    /\ UNCHANGED <<product, returned, handedOut>>

\* ConcreteBuilder1.producePartA
producePartA == push(<<"PartA1">>) /\ builderOp' = "producePartA"

\* ConcreteBuilder1.producePartB
producePartB == push(<<"PartB1">>) /\ builderOp' = "producePartB"

\* ConcreteBuilder1.producePartC
producePartC == push(<<"PartC1">>) /\ builderOp' = "producePartC"

\* Director.buildMinimalViableProduct
buildMinimalViableProduct ==
    push(<<"PartA1">>) /\ builderOp' = "buildMinimalViableProduct"

\* Director.buildFullFeaturedProduct
buildFullFeaturedProduct ==
    /\ push(<<"PartA1", "PartB1", "PartC1">>)
    /\ builderOp' = "buildFullFeaturedProduct"

\* ConcreteBuilder1.reset
reset ==
    /\ Len(products) < MaxProducts
    /\ products' = Append(products, <<>>)
    /\ product' = Len(products) + 1
    /\ sinceReset' = <<>>
    /\ builderOp' = "reset"
    /\ UNCHANGED <<returned, produced, handedOut>>

\* a getProduct that returns the product and keeps building on it
getProduct_keeping ==
    /\ Len(products) < MaxProducts
    /\ returned' = Append(returned, product)
    /\ handedOut' = Append(handedOut, products[product])
    /\ sinceReset' = <<>>
    /\ builderOp' = "getProduct"
    /\ UNCHANGED <<products, product, produced>>

\* ConcreteBuilder1.getProduct
getProduct ==
    /\ Len(products) < MaxProducts
    /\ returned' = Append(returned, product)
    /\ handedOut' = Append(handedOut, products[product])
    /\ products' = Append(products, <<>>)
    /\ product' = Len(products) + 1
    /\ sinceReset' = <<>>
    /\ builderOp' = "getProduct"
    /\ UNCHANGED produced


\* ==== Composite ===========================================================
\* src/unnamed/part_004
NumComponents == 4      \* component objects constructed by the client
MaxChildren == 3        \* most entries of the child list

\* the component objects: the first is a Composite, the others are leaves
Components == 1..NumComponents

tree == 1

VARIABLES
    children,      \* Composite.children of the composite
    parent,        \* Component.parent of every component (Null: none)
    compOp,        \* the method the client called last
    compArg        \* the component passed to it

compositeVars == <<children, parent, compOp, compArg>>

CompositeInit ==
    /\ children = <<>>
    /\ parent = [c \in Components |-> Null]
    /\ compOp = "new"
    /\ compArg = Null

\* Array.prototype.splice(start, deleteCount) with no items to insert: the
\* list that remains. A negative start counts from the end of the list.
splice(list, start, deleteCount) ==
    LET len == Len(list)
        from == IF start < 0
                THEN (IF len + start < 0 THEN 0 ELSE len + start)
                ELSE (IF start > len THEN len ELSE start)
        count == IF deleteCount < 0 THEN 0
                 ELSE IF deleteCount > len - from THEN len - from
                 ELSE deleteCount
    IN  SubSeq(list, 1, from) \o SubSeq(list, from + count + 1, len)

\* Composite.add
add(component) ==
    /\ Len(children) < MaxChildren
    /\ children' = Append(children, component)
    /\ parent' = [parent EXCEPT ![component] = tree]
    /\ compOp' = "add"
    /\ compArg' = component

\* Composite.remove; indexOf of JavaScript counts from 0 and is -1 when the
\* component is not in the list
remove(component) ==
    LET componentIndex == indexOf(children, component) - 1
    IN  /\ children' = splice(children, componentIndex, 1)
        /\ parent' = [parent EXCEPT ![component] = Null]
        /\ compOp' = "remove"
        /\ compArg' = component

\* Component.add and Component.remove, which a Leaf inherits: empty bodies
leafOp(component) ==
    /\ compOp' = "leaf"
    /\ compArg' = component
    /\ UNCHANGED <<children, parent>>


\* ==== State ===============================================================
\* src/unnamed/part_003
NumContexts == 2        \* Context objects constructed by the client
MaxStateObjects == 4    \* most State objects constructed in a run

Contexts == 1..NumContexts

VARIABLES
    stateObjs,     \* the State objects by address: class and context field
    ctxState,      \* Context.state of every context (an address)
    stOp,          \* the method of a context the client called last
    stCtx,         \* the context it was called on
    onlyRequests   \* history: the client called nothing but request1 and
                   \* request2 since the contexts were constructed

stateVars == <<stateObjs, ctxState, stOp, stCtx, onlyRequests>>

\* new ConcreteStateA() / new ConcreteStateB(): the context field is unset
newState(class) == [class |-> class, context |-> Null]

\* a setContext that forgets the context
setContext_skipped(st, context) == st

\* State.setContext
setContext(st, context) == [st EXCEPT !.context = context]

\* every context is constructed as new Context(new ConcreteStateA()): the
\* constructor calls transitionTo
StateInit ==
    /\ stateObjs = [c \in Contexts |-> setContext(newState("ConcreteStateA"), c)]
    /\ ctxState = [c \in Contexts |-> c]
    /\ stOp = "new"
    /\ stCtx = Null
    /\ onlyRequests = TRUE

\* context.transitionTo(new class()) called from a handler: the new object
\* gets the next address
transitionToNew(context, class) ==
    /\ Len(stateObjs) < MaxStateObjects
    /\ stateObjs' = Append(stateObjs, setContext(newState(class), context))
    /\ ctxState' = [ctxState EXCEPT ![context] = Len(stateObjs) + 1]

\* ConcreteStateA.handle1 / ConcreteStateB.handle1 of the state object at st
handle1(st) ==
    IF stateObjs[st].class = "ConcreteStateA"
    THEN transitionToNew(stateObjs[st].context, "ConcreteStateB")
    ELSE UNCHANGED <<stateObjs, ctxState>>

\* ConcreteStateA.handle2 / ConcreteStateB.handle2 of the state object at st
handle2(st) ==
    IF stateObjs[st].class = "ConcreteStateB"
    THEN transitionToNew(stateObjs[st].context, "ConcreteStateA")
    ELSE UNCHANGED <<stateObjs, ctxState>>

\* Context.request1
request1(context) ==
    /\ handle1(ctxState[context])
    /\ stOp' = "request1"
    /\ stCtx' = context
    /\ UNCHANGED onlyRequests

\* Context.request2
request2(context) ==
    /\ handle2(ctxState[context])
    /\ stOp' = "request2"
    /\ stCtx' = context
    /\ UNCHANGED onlyRequests

\* Context.transitionTo called by the client with a state object it holds
transitionTo(context, st) ==
    /\ stateObjs' = [stateObjs EXCEPT ![st] = setContext(@, context)]
    /\ ctxState' = [ctxState EXCEPT ![context] = st]
    /\ stOp' = "transitionTo"
    /\ stCtx' = context
    /\ onlyRequests' = FALSE


\* ==== specifications ======================================================
\* all variables of the module
allVars ==
    <<vars,
      concVars,
      singletonVars,
      observerVars,
      chainVars,
      iteratorVars,
      builderVars,
      compositeVars,
      stateVars>>

\* the initial states of Spec: the other examples have not started
AllInit ==
    /\ Init
    /\ ConcIdle
    /\ SingletonInit
    /\ ObserverInit
    /\ ChainInit
    /\ IteratorInit
    /\ BuilderInit
    /\ CompositeInit
    /\ StateInit

\* the variables that Spec leaves alone
SpecRest ==
    <<concVars,
      singletonVars,
      observerVars,
      chainVars,
      iteratorVars,
      builderVars,
      compositeVars,
      stateVars>>

\* the Memento example: the driver calls any public method, and time passes
Next ==
    \/ \E s \in generateRandomString(RandLen) :
          doSomething(s) /\ UNCHANGED SpecRest
    \/ save /\ UNCHANGED SpecRest
    \/ \E m \in DriverHeld \cup {Null} :
          restore(m) /\ UNCHANGED SpecRest
    \/ backup /\ UNCHANGED SpecRest
    \/ undo /\ UNCHANGED SpecRest
    \/ showHistory /\ UNCHANGED SpecRest
    \/ Tick /\ UNCHANGED SpecRest

Spec == AllInit /\ [][Next]_allVars

\* the initial states of SpecConc: the other examples have not started
ConcAllInit ==
    /\ Init
    /\ ConcInit
    /\ SingletonInit
    /\ ObserverInit
    /\ ChainInit
    /\ IteratorInit
    /\ BuilderInit
    /\ CompositeInit
    /\ StateInit

\* the variables that SpecConc leaves alone
SpecConcRest ==
    <<singletonVars,
      observerVars,
      chainVars,
      iteratorVars,
      builderVars,
      compositeVars,
      stateVars>>

\* the Memento example with undo taken apart into its steps
ConcNext ==
    \/ \E s \in generateRandomString(RandLen) :
          concDoSomething(s) /\ UNCHANGED SpecConcRest
    \/ concBackup /\ UNCHANGED SpecConcRest
    \/ undoPop /\ UNCHANGED SpecConcRest
    \/ undoRestore /\ UNCHANGED SpecConcRest
    \/ undoReturn /\ UNCHANGED SpecConcRest

SpecConc == ConcAllInit /\ [][ConcNext]_allVars

\* the initial states of SpecSingleton: the other examples have not started
SingletonAllInit ==
    /\ InitClient
    /\ ConcIdle
    /\ SingletonInit
    /\ ObserverInit
    /\ ChainInit
    /\ IteratorInit
    /\ BuilderInit
    /\ CompositeInit
    /\ StateInit

\* the variables that SpecSingleton leaves alone
SpecSingletonRest ==
    <<vars,
      concVars,
      observerVars,
      chainVars,
      iteratorVars,
      builderVars,
      compositeVars,
      stateVars>>

\* the Singleton example: calls of clientCode, step by step
SingletonNext ==
    \/ \E c \in Clients :
          clientS1(c) /\ UNCHANGED SpecSingletonRest
    \/ \E c \in Clients :
          clientS2(c) /\ UNCHANGED SpecSingletonRest
    \/ \E c \in Clients :
          clientCompare(c) /\ UNCHANGED SpecSingletonRest

SpecSingleton == SingletonAllInit /\ [][SingletonNext]_allVars

\* the initial states of SpecObserver: the other examples have not started
ObserverAllInit ==
    /\ InitClient
    /\ ConcIdle
    /\ SingletonInit
    /\ ObserverInit
    /\ ChainInit
    /\ IteratorInit
    /\ BuilderInit
    /\ CompositeInit
    /\ StateInit

\* the variables that SpecObserver leaves alone
SpecObserverRest ==
    <<vars,
      concVars,
      singletonVars,
      chainVars,
      iteratorVars,
      builderVars,
      compositeVars,
      stateVars>>

\* the Observer example: the client calls any method of the subject
ObserverNext ==
    \/ \E o \in Observers :
          attach(o) /\ UNCHANGED SpecObserverRest
    \/ \E o \in Observers :
          detach(o) /\ UNCHANGED SpecObserverRest
    \/ notify /\ UNCHANGED SpecObserverRest
    \/ \E n \in 0..MaxRandomState :
          someBusinessLogic(n) /\ UNCHANGED SpecObserverRest

SpecObserver == ObserverAllInit /\ [][ObserverNext]_allVars

\* the initial states of SpecChain: the other examples have not started
ChainAllInit ==
    /\ InitClient
    /\ ConcIdle
    /\ SingletonInit
    /\ ObserverInit
    /\ ChainInit
    /\ IteratorInit
    /\ BuilderInit
    /\ CompositeInit
    /\ StateInit

\* the variables that SpecChain leaves alone
SpecChainRest ==
    <<vars,
      concVars,
      singletonVars,
      observerVars,
      iteratorVars,
      builderVars,
      compositeVars,
      stateVars>>

\* the Chain of Responsibility example: the client links handlers and sends requests
ChainNext ==
    \/ \E h \in Handlers, handler \in Handlers :
          setNext(h, handler) /\ UNCHANGED SpecChainRest
    \/ \E h \in Handlers, request \in Requests :
          clientHandle(h, request) /\ UNCHANGED SpecChainRest

SpecChain == ChainAllInit /\ [][ChainNext]_allVars

\* the initial states of SpecIterator: the other examples have not started
IteratorAllInit ==
    /\ InitClient
    /\ ConcIdle
    /\ SingletonInit
    /\ ObserverInit
    /\ ChainInit
    /\ IteratorInit
    /\ BuilderInit
    /\ CompositeInit
    /\ StateInit

\* the variables that SpecIterator leaves alone
SpecIteratorRest ==
    <<vars,
      concVars,
      singletonVars,
      observerVars,
      chainVars,
      builderVars,
      compositeVars,
      stateVars>>

\* the Iterator example: the client fills the collection and traverses it; its while loop keeps running
IteratorNext ==
    \/ \E item \in Words :
          addItem(item) /\ UNCHANGED SpecIteratorRest
    \/ getIterator /\ UNCHANGED SpecIteratorRest
    \/ getReverseIterator /\ UNCHANGED SpecIteratorRest
    \/ rewind /\ UNCHANGED SpecIteratorRest
    \/ loopNext /\ UNCHANGED SpecIteratorRest
    \/ loopExit /\ UNCHANGED SpecIteratorRest

SpecIterator == IteratorAllInit /\ [][IteratorNext]_allVars
        /\ WF_allVars(loopNext /\ UNCHANGED SpecIteratorRest)
        /\ WF_allVars(loopExit /\ UNCHANGED SpecIteratorRest)

\* the initial states of SpecBuilder: the other examples have not started
BuilderAllInit ==
    /\ InitClient
    /\ ConcIdle
    /\ SingletonInit
    /\ ObserverInit
    /\ ChainInit
    /\ IteratorInit
    /\ BuilderInit
    /\ CompositeInit
    /\ StateInit

\* the variables that SpecBuilder leaves alone
SpecBuilderRest ==
    <<vars,
      concVars,
      singletonVars,
      observerVars,
      chainVars,
      iteratorVars,
      compositeVars,
      stateVars>>

\* the Builder example: the client uses the builder directly or through the director
BuilderNext ==
    \/ producePartA /\ UNCHANGED SpecBuilderRest
    \/ producePartB /\ UNCHANGED SpecBuilderRest
    \/ producePartC /\ UNCHANGED SpecBuilderRest
    \/ buildMinimalViableProduct /\ UNCHANGED SpecBuilderRest
    \/ buildFullFeaturedProduct /\ UNCHANGED SpecBuilderRest
    \/ reset /\ UNCHANGED SpecBuilderRest
    \/ getProduct /\ UNCHANGED SpecBuilderRest

SpecBuilder == BuilderAllInit /\ [][BuilderNext]_allVars

\* the initial states of SpecComposite: the other examples have not started
CompositeAllInit ==
    /\ InitClient
    /\ ConcIdle
    /\ SingletonInit
    /\ ObserverInit
    /\ ChainInit
    /\ IteratorInit
    /\ BuilderInit
    /\ CompositeInit
    /\ StateInit

\* the variables that SpecComposite leaves alone
SpecCompositeRest ==
    <<vars,
      concVars,
      singletonVars,
      observerVars,
      chainVars,
      iteratorVars,
      builderVars,
      stateVars>>

\* the Composite example: the client adds components to the composite and removes them
CompositeNext ==
    \/ \E component \in Components :
          add(component) /\ UNCHANGED SpecCompositeRest
    \/ \E component \in Components :
          remove(component) /\ UNCHANGED SpecCompositeRest
    \/ \E component \in Components :
          leafOp(component) /\ UNCHANGED SpecCompositeRest

SpecComposite == CompositeAllInit /\ [][CompositeNext]_allVars

\* the initial states of SpecState: the other examples have not started
StateAllInit ==
    /\ InitClient
    /\ ConcIdle
    /\ SingletonInit
    /\ ObserverInit
    /\ ChainInit
    /\ IteratorInit
    /\ BuilderInit
    /\ CompositeInit
    /\ StateInit

\* the variables that SpecState leaves alone
SpecStateRest ==
    <<vars,
      concVars,
      singletonVars,
      observerVars,
      chainVars,
      iteratorVars,
      builderVars,
      compositeVars>>

\* the State example: the client sends requests to its contexts, or sets their state itself
StateNext ==
    \/ \E context \in Contexts :
          request1(context) /\ UNCHANGED SpecStateRest
    \/ \E context \in Contexts :
          request2(context) /\ UNCHANGED SpecStateRest
    \/ \E context \in Contexts, st \in 1..Len(stateObjs) :
          transitionTo(context, st) /\ UNCHANGED SpecStateRest

SpecState == StateAllInit /\ [][StateNext]_allVars

\* ---- helpers of the properties -------------------------------------------
Max(S) == CHOOSE x \in S : \A y \in S : y <= x

\* the addresses of S in increasing order, i.e. in order of construction
Ordered(S) ==
    CHOOSE f \in [1..Cardinality(S) -> S] :
        \A i, j \in 1..Cardinality(S) : i < j => f[i] < f[j]

\* the snapshots captured by backup and not yet consumed by an undo
Pending == backedUp \ reverted

\* C1: every undo on a non-empty history removes exactly the last entry and
\* sets the Originator's state to the state stored in it, and that entry is
\* the most recently captured snapshot no earlier undo has consumed.
C1_UndoIsLifo ==
    [][(lastOp' = "undo" /\ Len(mementos) > 0) =>
          /\ mementos' = Front(mementos)
          /\ state' = heap[Last(mementos)].state
          /\ Last(mementos) = Max(Pending)
          /\ memento' = Last(mementos)]_vars

\* C1 witness: backup, doSomething to X, backup, undo, undo: the first undo
\* restored X, the second the initial state.
C1_Witness ==
    /\ lastOp = "undo"
    /\ reverted = {1, 2}
    /\ backedUp = {1, 2}
    /\ heap[1].state \in InitialStates
    /\ heap[2].state \notin InitialStates
    /\ state = heap[1].state
    /\ mementos = <<>>

\* C2: n consecutive backups followed by n consecutive undos, with no
\* doSomething or restore in between, leave the Originator's state and the
\* entries as they were before the first of these backups.
C2_RoundTrip ==
    win.closed # <<>> =>
        /\ state = win.closed[1].state
        /\ mementos = win.closed[1].mementos

\* C2 witness: two backups on a non-empty history, then two undos.
C2_Witness ==
    /\ lastOp = "undo"
    /\ win.n = 2
    /\ win.closed # <<>>
    /\ win.closed[1].mementos # <<>>
    /\ state # heap[Last(mementos)].state

\* C3: undo on an empty history raises no error and changes neither the
\* Originator's state nor the (empty) entries, however often it is repeated.
C3_UndoOnEmpty ==
    [][(lastOp' = "undo" /\ Len(mementos) = 0) =>
          /\ err' = None
          /\ state' = state
          /\ mementos' = <<>>
          /\ heap' = heap
          /\ memento' = Null]_vars

\* C3 witness: an undo that found the history emptied by earlier undos.
C3_Witness ==
    /\ lastOp = "undo"
    /\ memento = Null
    /\ err = None
    /\ mementos = <<>>
    /\ reverted # {}

C5_MementoImmutable ==
    [][/\ Len(heap') >= Len(heap)
       /\ \A m \in 1..Len(heap) : getState(m)' = getState(m)
       /\ \A m \in (Len(heap) + 1)..Len(heap') : getState(m)' = state]_vars

\* C5 witness: a memento that an undo restored from, after the Originator
\* moved on to another state.
C5_Witness ==
    /\ lastOp = "doSomething"
    /\ \E m \in reverted : getState(m) # state
    /\ \E m \in DriverHeld : getState(m) # state

\* C6: backup never fails, makes the entries one longer, appends a memento
\* holding the Originator's state at the call, and leaves the earlier entries
\* and their order as they were.
C6_Backup ==
    [][lastOp' = "backup" =>
          /\ err' = None
          /\ Len(mementos') = Len(mementos) + 1
          /\ SubSeq(mementos', 1, Len(mementos)) = mementos
          /\ heap'[Last(mementos')].state = state
          /\ Last(mementos') \notin 1..Len(heap)
          /\ \A i \in 1..Len(mementos) : heap'[mementos[i]] = heap[mementos[i]]]_vars

\* C6 witness: a backup onto a history that held an entry of another state.
C6_Witness ==
    /\ lastOp = "backup"
    /\ Len(mementos) >= 2
    /\ getState(mementos[1]) # getState(Last(mementos))
    /\ getState(Last(mementos)) = state

\* C7: the Originator's state is always defined (a string) and changes only in
\* doSomething, restore and an undo on a non-empty history.
C7_StateFrame ==
    /\ [](state \in States)
    /\ [][state' # state =>
             \/ lastOp' \in {"doSomething", "restore"}
             \/ lastOp' = "undo" /\ Len(mementos) > 0]_vars

\* C7 witness: showHistory on a non-empty history after the state was changed
\* by doSomething and by an undo.
C7_Witness ==
    /\ lastOp = "showHistory"
    /\ shown # <<>>
    /\ reverted # {}
    /\ DriverHeld # {}
    /\ state \notin InitialStates

\* C8: the entries change only in backup (one longer) and undo (one shorter
\* when non-empty, unchanged when empty); doSomething, save, a restore called
\* by the driver and showHistory leave them as they were.
C8_EntriesFrame ==
    /\ [](Len(mementos) >= 0)
    /\ [][/\ lastOp' = "backup" => Len(mementos') = Len(mementos) + 1
          /\ lastOp' = "undo" =>
                Len(mementos') = IF Len(mementos) = 0 THEN 0
                                 ELSE Len(mementos) - 1
          /\ lastOp' \notin {"backup", "undo"} => mementos' = mementos]_vars

\* C8 witness: the driver restored from a memento of its own while the
\* history was non-empty.
C8_Witness ==
    /\ lastOp = "restore"
    /\ memento # Null
    /\ err = None
    /\ Len(mementos) >= 2

\* C9: showHistory changes neither the entries nor the Originator's state nor
\* the mementos, and prints the same lines as the showHistory before it when
\* no backup or undo was called in between.
C9_ShowHistoryPure ==
    [][lastOp' = "showHistory" =>
          /\ mementos' = mementos
          /\ state' = state
          /\ heap' = heap
          /\ shows >= 1 => shown' = shown]_vars

\* C9 witness: a repeated showHistory on a non-empty history.
C9_Witness ==
    /\ lastOp = "showHistory"
    /\ shows >= 2
    /\ Len(shown) >= 2
    /\ state # getState(Last(mementos))

\* C10: showHistory prints one label per entry, oldest first: after k backups
\* and r undos on a non-empty history, the k - r labels of the captures not
\* yet reverted, in capture order.
C10_ShowHistoryLabels ==
    lastOp = "showHistory" =>
        /\ Len(shown) = Cardinality(backedUp) - Cardinality(reverted)
        /\ Len(shown) = Len(mementos)
        /\ \A i \in 1..Len(shown) : shown[i] = getName(Ordered(Pending)[i])

\* C10 witness: three backups, two undos, then showHistory prints exactly
\* the label of the first capture.
C10_Witness ==
    /\ lastOp = "showHistory"
    /\ Cardinality(backedUp) = 3
    /\ Cardinality(reverted) = 2
    /\ shown = <<getName(1)>>

OriginatorMethods ==
    {"Originator.doSomething", "Originator.save", "Originator.restore"}

CaretakerMethods ==
    {"Caretaker.backup", "Caretaker.undo", "Caretaker.showHistory"}

\* C13 as stated: the Caretaker and the Originator never call each other:
\* every method of either is called by the driver only.
C13_Original ==
    \A c \in calls :
        c[2] \in OriginatorMethods \cup CaretakerMethods => c[1] = "driver"

\* C13 amended: the Originator never calls the Caretaker and doSomething is
\* called by the driver only, but the Caretaker calls the Originator itself:
\* backup calls save, and undo on a non-empty history calls restore; the
\* Caretaker makes no other call of the Originator.
C13_CallStructure ==
    [][lastOp' # "tick" =>
          /\ \A c \in calls' :
                /\ c[2] \in CaretakerMethods => c[1] = "driver"
                /\ c[2] = "Originator.doSomething" => c[1] = "driver"
                /\ c[1] # "driver" /\ c[2] \in OriginatorMethods =>
                      \/ c = <<"Caretaker", "Originator.save">>
                      \/ c = <<"Caretaker", "Originator.restore">>
          /\ <<"Caretaker", "Originator.save">> \in calls'
                <=> lastOp' = "backup"
          /\ <<"Caretaker", "Originator.restore">> \in calls'
                <=> (lastOp' = "undo" /\ Len(mementos) > 0)]_vars

\* C13 witness: an undo on a history of two entries, in which the Caretaker
\* called Originator.restore.
C13_Witness ==
    /\ lastOp = "undo"
    /\ <<"Caretaker", "Originator.restore">> \in calls
    /\ <<"driver", "Originator.restore">> \notin calls
    /\ Len(mementos) = 1

\* C14: every getInstance call returns the same instance: at most one
\* Singleton is ever constructed, the first call constructs it and no later
\* call replaces it, so every clientCode call finds s1 === s2.
C14_OneInstance ==
    /\ [](/\ singletons <= 1
          /\ instance \in {Null, 1}
          /\ \A c \in Clients :
                /\ clientPc[c] # "start" => s1[c] # Null /\ s1[c] = instance
                /\ clientPc[c] \in {"s2", "done"} => s2[c] = s1[c]
                /\ verdict[c] # "failed"
          /\ \A c, d \in Clients :
                s1[c] # Null /\ s2[d] # Null => s1[c] = s2[d])
    /\ [][/\ instance # Null => instance' = instance /\ singletons' = singletons
          /\ instance = Null /\ clientPc' # clientPc /\ s1' # s1 =>
                instance' = 1 /\ singletons' = 1]_singletonVars

\* C14 witness: every clientCode call got both its references and found them
\* identical, with one Singleton constructed.
C14_Witness ==
    /\ \A c \in Clients : verdict[c] = "works" /\ s1[c] = instance
    /\ singletons = 1

\* C12: when every public method runs to completion before another starts,
\* the Originator's state at the return of an undo that popped a memento is
\* that memento's state.  (Without it the witness below is reachable: undo
\* has returned and the state is not the popped memento's.)
C12_AtomicRevert ==
    (lock /\ lastOp = "undo" /\ memento # Null) => state = getState(memento)

\* C12 witness: with interleaved steps, a doSomething between undo's restore
\* and its return leaves, at the return, a state that is not the popped
\* memento's.
C12_Witness ==
    /\ ~lock
    /\ lastOp = "undo"
    /\ memento # Null
    /\ state # getState(memento)

\* C15: a notification round calls update exactly once on every observer
\* attached at the time of the call, in the order they were attached, and on
\* no other observer.
C15_NotifyRound ==
    [][obsOp' \in {"notify", "someBusinessLogic"} =>
          /\ Len(updates') = Cardinality(attached)
          /\ {updates'[i].observer : i \in 1..Len(updates')} = attached
          /\ \A i, j \in 1..Len(updates') :
                i < j => <<updates'[i].observer, updates'[j].observer>> \in before
          /\ attached' = attached]_observerVars

\* C15 witness: a notify that updated two observers, the later constructed
\* one first, while a third one was detached.
C15_Witness ==
    /\ obsOp = "notify"
    /\ Len(updates) = 2
    /\ updates[1].observer > updates[2].observer
    /\ detached # {}

\* the food each class of handler takes
Food == [Monkey |-> "Banana", Squirrel |-> "Nut", Dog |-> "MeatBall"]

\* the paths of the chain that start at handler h: p[i + 1] is the next
\* handler of p[i]
PathsFrom(h) ==
    {p \in UNION {[1..n -> Handlers] : n \in 1..NumHandlers} :
        /\ p[1] = h
        /\ \A i \in 1..(Len(p) - 1) : nextHandler[p[i]] = p[i + 1]}

\* C16: handle(request) sent to any handler returns the response of the first
\* handler, in chain order from it, that takes the request, and null when
\* no handler from it to the end of the chain does; only the handlers from
\* the starting one to the one that answers are consulted.
C16_FirstAccepting ==
    chainOp = "handle" =>
        \A p \in PathsFrom(chainStart) :
            (\A i \in 1..(Len(p) - 1) : Food[handlerClass(p[i])] # chainRequest) =>
                /\ Food[handlerClass(p[Len(p)])] = chainRequest =>
                      /\ chainResult = response(p[Len(p)], chainRequest)
                      /\ consulted = p
                /\ ( /\ Food[handlerClass(p[Len(p)])] # chainRequest
                     /\ nextHandler[p[Len(p)]] = Null ) =>
                      /\ chainResult = NullString
                      /\ consulted = p

\* C16 witness: 'Banana' sent to the subchain Squirrel > Dog of the chain
\* Monkey > Squirrel > Dog is left unhandled and the Monkey is not consulted.
C16_Witness ==
    /\ chainOp = "handle"
    /\ nextHandler[1] = 2 /\ nextHandler[2] = 3 /\ nextHandler[3] = Null
    /\ chainStart = 2
    /\ chainRequest = "Banana"
    /\ chainResult = NullString
    /\ consulted = <<2, 3>>

\* the list in reverse order
Reversed(list) == [i \in 1..Len(list) |-> list[Len(list) + 1 - i]]

\* C17: with no addItem (and no rewind) during the traversal, the loop
\* `while valid() do next()` on a fresh iterator returns every item once, in
\* insertion order for getIterator and in reverse insertion order for
\* getReverseIterator, then valid() is false; the loop terminates, also on an
\* empty collection, where nothing is returned.
C17_Traversal ==
    /\ []((itPc = "done" /\ fresh) =>
            /\ out = (IF reverse THEN Reversed(items) ELSE items)
            /\ ~valid)
    /\ []((itPc = "loop" /\ fresh) => <>(itPc = "done" \/ ~fresh))

\* C17 witness: a finished reverse traversal of three different items.
C17_Witness ==
    /\ itPc = "done"
    /\ fresh
    /\ reverse
    /\ Len(items) = 3
    /\ items[1] # items[3]
    /\ out = <<items[3], items[2], items[1]>>

\* C18: getProduct returns a product holding exactly the parts produced since
\* the construction of the builder or its previous getProduct or reset, in
\* order, and leaves the builder with a fresh empty product; a returned
\* product never changes afterwards.
C18_GetProduct ==
    /\ [](\A i \in 1..Len(returned) :
            /\ products[returned[i]] = handedOut[i]
            /\ returned[i] # product)
    /\ [][builderOp' = "getProduct" =>
            /\ Len(returned') = Len(returned) + 1
            /\ products'[Last(returned')] = sinceReset
            /\ products'[product'] = <<>>
            /\ \A i \in 1..Len(returned') : returned'[i] # product']_builderVars

\* C18 witness: the two products of the client code, the minimal one and then
\* the full featured one, returned by two getProduct calls.
C18_Witness ==
    /\ builderOp = "getProduct"
    /\ Len(returned) = 2
    /\ products[returned[1]] = <<"PartA1">>
    /\ products[returned[2]] = <<"PartA1", "PartB1", "PartC1">>
    /\ products[product] = <<>>

\* the list without the entries equal to x, the others in order
RECURSIVE Without(_, _)
Without(list, x) ==
    IF list = <<>> THEN <<>>
    ELSE IF list[1] = x THEN Without(Tail(list), x)
    ELSE <<list[1]>> \o Without(Tail(list), x)

\* C19: remove(c) removes c and no other component from the child list and
\* keeps the others in order; when c is not a child the list is unchanged.
C19_RemoveOnlyThat ==
    [][compOp' = "remove" =>
          /\ ~includes(children, compArg') => children' = children
          /\ Len(Without(children, compArg')) = Len(children) - 1 =>
                children' = Without(children, compArg')]_compositeVars

\* C19, the part that holds: remove(c) of a child that is in the list once
\* removes it and keeps the others in order.
C19_RemoveChild ==
    [][(compOp' = "remove" /\ Len(Without(children, compArg')) = Len(children) - 1) =>
          children' = Without(children, compArg')]_compositeVars

\* C19 witness: remove of a component that was not a child took the last
\* child out of the list.
C19_Witness ==
    /\ compOp = "remove"
    /\ children = <<2>>
    /\ parent[3] = tree
    /\ parent[2] = tree
    /\ compArg = 4

\* the class of the current state of a context
ClassOf(context) == stateObjs[ctxState[context]].class

\* C20: starting from ConcreteStateA, along any sequence of request1 and
\* request2 calls the current state of a context is a ConcreteStateA or a
\* ConcreteStateB and follows the table (request1 in A moves to B, request2 in
\* B moves to A, the other two leave it), and the context field of the
\* current state is that context.
C20_TransitionTable ==
    /\ [](onlyRequests =>
            \A c \in Contexts :
                /\ ClassOf(c) \in {"ConcreteStateA", "ConcreteStateB"}
                /\ stateObjs[ctxState[c]].context = c)
    /\ [][(onlyRequests' /\ stOp' \in {"request1", "request2"}) =>
            /\ stateObjs'[ctxState'[stCtx']].class =
                  (IF stOp' = "request1" /\ ClassOf(stCtx') = "ConcreteStateA"
                   THEN "ConcreteStateB"
                   ELSE IF stOp' = "request2" /\ ClassOf(stCtx') = "ConcreteStateB"
                   THEN "ConcreteStateA"
                   ELSE ClassOf(stCtx'))
            /\ stateObjs'[ctxState'[stCtx']].class = ClassOf(stCtx') => ctxState' = ctxState
            /\ \A c \in Contexts \ {stCtx'} : ctxState'[c] = ctxState[c]]_stateVars

\* C20 witness: a context back in ConcreteStateA after request1 and request2,
\* holding a new state object, while another context still holds its first.
C20_Witness ==
    /\ onlyRequests
    /\ stOp = "request2"
    /\ stCtx = 1
    /\ ClassOf(1) = "ConcreteStateA"
    /\ ctxState[1] # 1
    /\ stateObjs[ctxState[1]].context = 1
    /\ ctxState[2] = 2
    /\ stateObjs[2].context = 2

\* C21: every doSomething leaves the originator with a state different from
\* the state it had immediately before the call, whatever that state was,
\* states that doSomething produced included.
C21_MutateChangesState ==
    [][lastOp' = "doSomething" => state' # state]_vars

\* C21, the part that holds: doSomething leaves a string of RandLen letters of
\* charSet, which differs from any earlier state of another length.
C21_MutateDraws ==
    [][lastOp' = "doSomething" =>
          /\ Len(state') = RandLen
          /\ \A i \in 1..Len(state') : state'[i] \in charSet
          /\ Len(state) # RandLen => state' # state]_vars

\* C21 witness: the first scenario: backup of the state "A", then doSomething
\* leaves another state.
C21_Witness ==
    /\ lastOp = "doSomething"
    /\ mementos = <<1>>
    /\ getState(1) = <<"A">>
    /\ Len(state) = RandLen
    /\ state # <<"A">>

\* C22: someBusinessLogic sets the state to an integer from 0 to 10 and then
\* performs one notification round: the update of every attached observer
\* runs once and reads the new state.
C22_BusinessLogic ==
    [][obsOp' = "someBusinessLogic" =>
          /\ subjectState' \in 0..10
          /\ Len(updates') = Cardinality(attached)
          /\ {updates'[i].observer : i \in 1..Len(updates')} = attached
          /\ \A i \in 1..Len(updates') :
                /\ updates'[i].state = subjectState'
                /\ updates'[i].reacted =
                      (IF updates'[i].observer % 2 = 1
                       THEN subjectState' < 3
                       ELSE subjectState' = 0 \/ subjectState' >= 2)
          /\ observers' = observers]_observerVars

\* C22 witness: the state has become 10 and both attached observers have
\* read 10: the ConcreteObserverB reacted, the ConcreteObserverA did not.
C22_Witness ==
    /\ obsOp = "someBusinessLogic"
    /\ subjectState = 10
    /\ observers = <<2, 1>>
    /\ updates = << [observer |-> 2, state |-> 10, reacted |-> TRUE],
                    [observer |-> 1, state |-> 10, reacted |-> FALSE] >>

\* C23: after any sequence of attach and detach calls the observer list holds
\* no observer twice and is, in order of attachment, the observers attached
\* and not detached since; attach of an attached observer and detach of an
\* observer that is not attached leave the list as it is, and detach removes
\* the given observer only.
C23_ObserverList ==
    /\ [](/\ \A i, j \in 1..Len(observers) :
                i < j => /\ observers[i] # observers[j]
                         /\ <<observers[i], observers[j]>> \in before
          /\ {observers[i] : i \in 1..Len(observers)} = attached)
    /\ [][\A o \in Observers :
            /\ attach(o) =>
                  observers' = (IF o \in attached THEN observers
                                ELSE observers \o <<o>>)
            /\ detach(o) =>
                  /\ observers' = Without(observers, o)
                  /\ o \notin attached => observers' = observers]_observerVars

\* C23 witness: after an attach the list holds the third observer and then
\* the second, the order in which they were attached, while the first
\* observer is detached.
C23_Witness ==
    /\ obsOp = "attach"
    /\ observers = <<3, 2>>
    /\ detached = {1}
    /\ before = {<<3, 2>>}

====
